---- MODULE Spec2Model ----
(***************************************************************************)
(* CrabiPie (src/src/main.rs): an egui REST client.  MyApp holds the       *)
(* editable request configuration, the displayed response and a loading    *)
(* flag; send_request snapshots the configuration and spawns one thread    *)
(* per dispatch, which builds the reqwest request, performs the exchange,  *)
(* classifies the outcome into an HttpResponse and sends it on an mpsc     *)
(* channel; update polls the channel once per frame.                       *)
(*                                                                         *)
(* Text the code computes on (URL, header text, tokens, header values) is  *)
(* a sequence of one-character strings, so that trim, lines, split and     *)
(* starts_with are computed as the code computes them.  An Option is a     *)
(* sequence of length 0 (None) or 1 (Some).                                *)
(***************************************************************************)
EXTENDS Integers, Sequences, FiniteSets, TLC

(***************************************************************************)
(* Characters                                                              *)
(***************************************************************************)
UpperCase == <<"A", "B", "C", "D", "E", "F", "G", "H", "I", "J", "K", "L", "M",
    "N", "O", "P", "Q", "R", "S", "T", "U", "V", "W", "X", "Y", "Z">>
LowerCase == <<"a", "b", "c", "d", "e", "f", "g", "h", "i", "j", "k", "l", "m",
    "n", "o", "p", "q", "r", "s", "t", "u", "v", "w", "x", "y", "z">>
Digits == {"0", "1", "2", "3", "4", "5", "6", "7", "8", "9"}
Letters == {UpperCase[i] : i \in 1..Len(UpperCase)} \cup {LowerCase[i] : i \in 1..Len(LowerCase)}

\* char::is_whitespace, over the characters of the model (str::trim)
Whitespace == {" ", "\t", "\n", "\r", "\f"}

\* http::header::HeaderName::from_bytes: the legal header-token characters
TokenChars == Letters \cup Digits \cup
    {"!", "#", "$", "%", "&", "'", "*", "+", "-", ".", "^", "_", "|", "~"}

\* visible ASCII (32..126)
VisibleAscii == TokenChars \cup
    {" ", "\"", "(", ")", ",", "/", ":", ";", "<", "=", ">", "?", "@", "[", "\\", "]", "{", "}"}

\* http::header::HeaderValue::from_str accepts every byte >= 32 except DEL, and
\* tab; of the characters of the model it refuses the control characters.
ControlChars == {"\n", "\r", "\f"}
IsValidValueChar(c) == c \notin ControlChars

\* u8::to_ascii_lowercase, as HeaderName::from_bytes normalises names
ToAsciiLowercase(c) ==
    IF \E i \in 1..Len(UpperCase) : UpperCase[i] = c
    THEN LowerCase[CHOOSE i \in 1..Len(UpperCase) : UpperCase[i] = c]
    ELSE c

(***************************************************************************)
(* Strings and options                                                     *)
(***************************************************************************)
None == <<>>
Some(x) == <<x>>
IsSome(o) == Len(o) = 1
Unwrap(o) == o[1]

Range(s) == {s[i] : i \in 1..Len(s)}

\* str::starts_with
StartsWith(s, p) == Len(p) <= Len(s) /\ SubSeq(s, 1, Len(p)) = p

\* index of the first occurrence of p in s, 0 when there is none (str::find)
Find(s, p) ==
    LET hits == {i \in 1..(Len(s) - Len(p) + 1) : SubSeq(s, i, i + Len(p) - 1) = p}
    IN IF hits = {} THEN 0 ELSE CHOOSE i \in hits : \A j \in hits : i <= j

\* index of the last occurrence of the character c in s, 0 when there is none
RFindChar(s, c) ==
    LET hits == {i \in 1..Len(s) : s[i] = c}
    IN IF hits = {} THEN 0 ELSE CHOOSE i \in hits : \A j \in hits : j <= i

\* str::trim_matches: strips the characters of set from both ends
TrimMatches(s, set) ==
    LET keep == {i \in 1..Len(s) : s[i] \notin set}
    IN IF keep = {} THEN <<>>
       ELSE SubSeq(s, CHOOSE i \in keep : \A j \in keep : i <= j,
                      CHOOSE i \in keep : \A j \in keep : j <= i)

\* str::trim
Trim(s) == TrimMatches(s, Whitespace)

\* str::lines: split at "\n", a final empty piece is dropped, a trailing "\r"
\* of a line is stripped
RECURSIVE SplitChar(_, _)
SplitChar(s, c) ==
    LET i == Find(s, <<c>>)
    IN IF i = 0 THEN <<s>>
       ELSE <<SubSeq(s, 1, i - 1)>> \o SplitChar(SubSeq(s, i + 1, Len(s)), c)

StripCr(l) == IF Len(l) > 0 /\ l[Len(l)] = "\r" THEN SubSeq(l, 1, Len(l) - 1) ELSE l

Lines(s) ==
    LET pieces == SplitChar(s, "\n")
        kept == IF pieces[Len(pieces)] = <<>> THEN SubSeq(pieces, 1, Len(pieces) - 1)
                ELSE pieces
    IN [i \in 1..Len(kept) |-> StripCr(kept[i])]

\* str::split_once(':'): None, or Some(<<before, after>>) at the first ':'
SplitOnce(s, c) ==
    LET i == Find(s, <<c>>)
    IN IF i = 0 THEN None
       ELSE Some(<<SubSeq(s, 1, i - 1), SubSeq(s, i + 1, Len(s))>>)

\* decimal rendering of a natural number ({} in format!)
DigitOf(d) == <<"0", "1", "2", "3", "4", "5", "6", "7", "8", "9">>[d + 1]
RECURSIVE Decimal(_)
Decimal(n) == IF n < 10 THEN <<DigitOf(n)>> ELSE Decimal(n \div 10) \o <<DigitOf(n % 10)>>

(***************************************************************************)
(* Header maps: a set of [name, value] entries, at most one per name       *)
(* (the code only ever inserts, which replaces).                           *)
(***************************************************************************)
EmptyHeaders == {}

\* variant of HeaderInsert: an entry the map already has under the name stays
HeaderInsert_keepsFirst(m, name, value) ==
    IF \E e \in m : e.name = name THEN m
    ELSE m \cup {[name |-> name, value |-> value]}

\* HeaderMap::insert
HeaderInsert(m, name, value) ==
    {e \in m : e.name # name} \cup {[name |-> name, value |-> value]}

\* HeaderMap::get
HeaderGet(m, name) ==
    IF \E e \in m : e.name = name
    THEN Some((CHOOSE e \in m : e.name = name).value)
    ELSE None

\* HeaderName::from_bytes: Ok(lower-cased name) for a non-empty token, else Err
HeaderNameFromBytes(key) ==
    IF Len(key) > 0 /\ Range(key) \subseteq TokenChars
    THEN Some([i \in 1..Len(key) |-> ToAsciiLowercase(key[i])])
    ELSE None

\* HeaderValue::from_str
HeaderValueFromStr(value) ==
    IF \A i \in 1..Len(value) : IsValidValueChar(value[i]) THEN Some(value) ELSE None

\* HeaderValue::to_str: Ok only for visible ASCII and tab
HeaderValueToStr(value) ==
    IF Range(value) \subseteq (VisibleAscii \cup {"\t"}) THEN Some(value) ELSE None

\* variant of ParseHeaderLine: the line is split at its last ':'
ParseHeaderLine_lastColon(m, rawLine) ==
    LET line == Trim(rawLine)
        at == RFindChar(line, ":")
        name == HeaderNameFromBytes(Trim(SubSeq(line, 1, at - 1)))
        value == HeaderValueFromStr(Trim(SubSeq(line, at + 1, Len(line))))
    IN IF line = <<>> \/ line[1] = "#" THEN m
       ELSE IF at = 0 THEN m
       ELSE IF IsSome(name) /\ IsSome(value)
       THEN HeaderInsert(m, Unwrap(name), Unwrap(value))
       ELSE m

\* one iteration of the loop of parse_headers
ParseHeaderLine(m, rawLine) ==
    LET line == Trim(rawLine)
        kv == SplitOnce(line, ":")
    IN IF line = <<>> \/ line[1] = "#" THEN m
       ELSE IF ~IsSome(kv) THEN m
       ELSE LET name == HeaderNameFromBytes(Trim(Unwrap(kv)[1]))
                value == HeaderValueFromStr(Trim(Unwrap(kv)[2]))
            IN IF IsSome(name) /\ IsSome(value)
               THEN HeaderInsert(m, Unwrap(name), Unwrap(value))
               ELSE m

RECURSIVE ParseLinesFrom(_, _, _)
ParseLinesFrom(m, ls, i) ==
    IF i > Len(ls) THEN m ELSE ParseLinesFrom(ParseHeaderLine(m, ls[i]), ls, i + 1)

\* MyApp::parse_headers
parse_headers(text) == ParseLinesFrom(EmptyHeaders, Lines(text), 1)

(***************************************************************************)
(* Literals of the source                                                  *)
(***************************************************************************)
\* "https://jsonplaceholder.typicode.com/posts"
DefaultUrl == <<"h", "t", "t", "p", "s", ":", "/", "/", "j", "s", "o", "n", "p", "l", "a", "c",
    "e", "h", "o", "l", "d", "e", "r", ".", "t", "y", "p", "i", "c", "o", "d", "e", ".", "c",
    "o", "m", "/", "p", "o", "s", "t", "s">>
\* "# Add headers as key: value pairs\n# Example:\n# X-Custom-Header: value"
DefaultHeaders == <<"#", " ", "A", "d", "d", " ", "h", "e", "a", "d", "e", "r", "s", " ", "a",
    "s", " ", "k", "e", "y", ":", " ", "v", "a", "l", "u", "e", " ", "p", "a", "i", "r", "s",
    "\n", "#", " ", "E", "x", "a", "m", "p", "l", "e", ":", "\n", "#", " ", "X", "-", "C", "u",
    "s", "t", "o", "m", "-", "H", "e", "a", "d", "e", "r", ":", " ", "v", "a", "l", "u", "e">>
\* the default JSON body, kept in one piece: the code never looks inside it
DefaultBody == <<"{\n  \"title\": \"foo\",\n  \"body\": \"bar\",\n  \"userId\": 1\n}">>
\* reqwest::header::AUTHORIZATION
H_AUTHORIZATION == <<"a", "u", "t", "h", "o", "r", "i", "z", "a", "t", "i", "o", "n">>
\* "content-type", and "Content-Type" as HeaderName::from_bytes normalises it
H_content_type == <<"c", "o", "n", "t", "e", "n", "t", "-", "t", "y", "p", "e">>
H_content_disposition == <<"c", "o", "n", "t", "e", "n", "t", "-", "d", "i", "s", "p", "o",
    "s", "i", "t", "i", "o", "n">>
S_Content_Type == <<"C", "o", "n", "t", "e", "n", "t", "-", "T", "y", "p", "e">>
S_application_json == <<"a", "p", "p", "l", "i", "c", "a", "t", "i", "o", "n", "/", "j", "s",
    "o", "n">>
S_Bearer == <<"B", "e", "a", "r", "e", "r", " ">>
S_multipart == <<"m", "u", "l", "t", "i", "p", "a", "r", "t", "/", "f", "o", "r", "m", "-",
    "d", "a", "t", "a", ";", " ", "b", "o", "u", "n", "d", "a", "r", "y", "=">>
P_image == <<"i", "m", "a", "g", "e", "/">>
P_pdf == <<"a", "p", "p", "l", "i", "c", "a", "t", "i", "o", "n", "/", "p", "d", "f">>
P_octet == <<"a", "p", "p", "l", "i", "c", "a", "t", "i", "o", "n", "/", "o", "c", "t", "e",
    "t", "-", "s", "t", "r", "e", "a", "m">>
P_video == <<"v", "i", "d", "e", "o", "/">>
P_audio == <<"a", "u", "d", "i", "o", "/">>
S_filename_eq == <<"f", "i", "l", "e", "n", "a", "m", "e", "=">>
S_download == <<"d", "o", "w", "n", "l", "o", "a", "d">>
S_file == <<"f", "i", "l", "e">>
S_Error == <<"E", "r", "r", "o", "r">>
S_request_failed == <<"R", "e", "q", "u", "e", "s", "t", " ", "f", "a", "i", "l", "e", "d",
    ":", " ">>
S_err_binary == <<"E", "r", "r", "o", "r", " ", "r", "e", "a", "d", "i", "n", "g", " ", "b",
    "i", "n", "a", "r", "y", " ", "d", "a", "t", "a", ":", " ">>
S_err_body == <<"E", "r", "r", "o", "r", " ", "r", "e", "a", "d", "i", "n", "g", " ", "b", "o",
    "d", "y", ":", " ">>
S_Loading == <<"L", "o", "a", "d", "i", "n", "g", ".", ".", ".">>
S_binary_file == <<"B", "i", "n", "a", "r", "y", " ", "f", "i", "l", "e", " ", "(">>
S_bytes_ct == <<" ", "b", "y", "t", "e", "s", ")", "\n", "\n", "C", "o", "n", "t", "e", "n",
    "t", "-", "T", "y", "p", "e", ":", " ">>

HttpMethod == {"GET", "POST", "PUT", "DELETE", "PATCH"}
ContentType == {"Json", "FormData"}
FormFieldType == {"Text", "File"}
AuthType == {"None", "Bearer"}

(***************************************************************************)
(* send_request, on the interactive thread: the header map handed to the   *)
(* dispatch thread                                                         *)
(***************************************************************************)
\* variant of AddBearer: an Authorization line of the raw headers is kept
AddBearer_rawWins(hdrs, authType, token) ==
    IF authType = "Bearer" /\ token # <<>> /\ ~IsSome(HeaderGet(hdrs, H_AUTHORIZATION))
    THEN LET header_value == HeaderValueFromStr(S_Bearer \o token)
         IN IF IsSome(header_value)
            THEN HeaderInsert(hdrs, H_AUTHORIZATION, Unwrap(header_value))
            ELSE hdrs
    ELSE hdrs

\* variant of AddBearer: an empty token is put in as well
AddBearer_emptyToken(hdrs, authType, token) ==
    IF authType = "Bearer"
    THEN LET header_value == HeaderValueFromStr(S_Bearer \o token)
         IN IF IsSome(header_value)
            THEN HeaderInsert(hdrs, H_AUTHORIZATION, Unwrap(header_value))
            ELSE hdrs
    ELSE hdrs

\* lines 576-583: the bearer token goes in over the parsed headers; a token
\* that makes no valid header value is dropped without a word
AddBearer(hdrs, authType, token) ==
    IF authType = "Bearer" /\ token # <<>>
    THEN LET header_value == HeaderValueFromStr(S_Bearer \o token)
         IN IF IsSome(header_value)
            THEN HeaderInsert(hdrs, H_AUTHORIZATION, Unwrap(header_value))
            ELSE hdrs
    ELSE hdrs

SnapshotHeaders(text, authType, token) == AddBearer(parse_headers(text), authType, token)

(***************************************************************************)
(* The dispatch thread: building the request                               *)
(***************************************************************************)
\* client.get(&url) and its siblings parse the URL; a URL that does not parse,
\* or has no http(s) scheme and host, makes request.send() return Err without
\* any exchange.  Url::parse strips surrounding spaces and control characters.
UrlAccepted(u) ==
    LET t == Trim(u)
        hostAt(p) == StartsWith(t, p) /\ Len(t) > Len(p) /\ t[Len(p) + 1] \notin {"/", "?", "#"}
    IN hostAt(<<"h", "t", "t", "p", ":", "/", "/">>) \/
       hostAt(<<"h", "t", "t", "p", "s", ":", "/", "/">>)

\* Path::new(p).file_name().and_then(|n| n.to_str()).unwrap_or("file")
FileNameOf(p) ==
    LET stripped == IF Range(p) \subseteq {"/"} THEN <<>>
                    ELSE SubSeq(p, 1, CHOOSE i \in 1..Len(p) :
                                        p[i] # "/" /\ \A j \in (i + 1)..Len(p) : p[j] = "/")
        last == SubSeq(stripped, RFindChar(stripped, "/") + 1, Len(stripped))
    IN IF last = <<>> \/ last = <<".", ".">> THEN S_file ELSE last

\* the bytes std::fs::read returns for a readable path
FileBytes(p) == <<Len(p)>>

\* variant of EncodeField: a new part goes in front of the parts before it
EncodeField_prepends(parts, f, i, readable) ==
    IF f.key = <<>> THEN parts
    ELSE IF f.field_type = "Text"
    THEN <<[name |-> f.key, kind |-> "text", text |-> f.value,
            bytes |-> <<>>, file_name |-> None, field |-> i]>> \o parts
    ELSE IF f.value # <<>> /\ f.value \in readable
    THEN <<[name |-> f.key, kind |-> "bytes", text |-> <<>>,
            bytes |-> FileBytes(f.value),
            file_name |-> Some(FileNameOf(f.value)), field |-> i]>> \o parts
    ELSE parts

\* One field of the loop at lines 600-628.  A File field is read from
\* field.value; field.files is not looked at.  `readable` is the set of paths
\* std::fs::read succeeds on.  `field` records the index of the field a part
\* comes from.
EncodeField(parts, f, i, readable) ==
    IF f.key = <<>> THEN parts
    ELSE IF f.field_type = "Text"
    THEN Append(parts, [name |-> f.key, kind |-> "text", text |-> f.value,
                        bytes |-> <<>>, file_name |-> None, field |-> i])
    ELSE IF f.value # <<>> /\ f.value \in readable
    THEN Append(parts, [name |-> f.key, kind |-> "bytes", text |-> <<>>,
                        bytes |-> FileBytes(f.value),
                        file_name |-> Some(FileNameOf(f.value)), field |-> i])
    ELSE parts

RECURSIVE EncodeFrom(_, _, _, _)
EncodeFrom(parts, fields, i, readable) ==
    IF i > Len(fields) THEN parts
    ELSE EncodeFrom(EncodeField(parts, fields[i], i, readable), fields, i + 1, readable)

\* reqwest::multipart::Form built by the loop
EncodeForm(fields, readable) == EncodeFrom(<<>>, fields, 1, readable)

\* the multipart boundary reqwest draws
Boundary == <<"0", "1", "2", "3", "a", "b", "c", "d">>

NoBody == [kind |-> "none", text |-> <<>>, parts |-> <<>>]

\* variant of BodyFor: the body is attached whatever the method
BodyFor_anyMethod(m, ct, bodyText, fields, readable) ==
    IF ct = "Json"
    THEN [kind |-> "text", text |-> bodyText, parts |-> <<>>]
    ELSE [kind |-> "multipart", text |-> <<>>, parts |-> EncodeForm(fields, readable)]

\* lines 590-716: the body and the headers the builder sets itself
BodyFor(m, ct, bodyText, fields, readable) ==
    IF m \in {"POST", "PUT", "PATCH"}
    THEN IF ct = "Json"
         THEN [kind |-> "text", text |-> bodyText, parts |-> <<>>]
         ELSE [kind |-> "multipart", text |-> <<>>, parts |-> EncodeForm(fields, readable)]
    ELSE NoBody

BuilderHeaders(m, ct) ==
    IF m \in {"POST", "PUT", "PATCH"}
    THEN IF ct = "Json"
         THEN HeaderInsert(EmptyHeaders, Unwrap(HeaderNameFromBytes(S_Content_Type)),
                           S_application_json)
         ELSE HeaderInsert(EmptyHeaders, H_content_type, S_multipart \o Boundary)
    ELSE EmptyHeaders

\* variant of MergeHeaders: a header the request already has is kept
MergeHeaders_keepExisting(existing, custom) ==
    existing \cup {c \in custom : ~\E e \in existing : e.name = c.name}

\* RequestBuilder::headers (line 719): every name of `custom` replaces the
\* entry the request already has under that name
MergeHeaders(existing, custom) ==
    {e \in existing : ~\E c \in custom : c.name = e.name} \cup custom

\* lines 590-719.  `set_headers` keeps what the builder set before the custom
\* headers went in.  A request whose URL is refused carries nothing.
BuildRequest(snap, readable) ==
    IF UrlAccepted(snap.url)
    THEN [error |-> FALSE, method |-> snap.method, url |-> snap.url,
          body |-> BodyFor(snap.method, snap.content_type, snap.body, snap.form_data, readable),
          set_headers |-> BuilderHeaders(snap.method, snap.content_type),
          headers |-> MergeHeaders(BuilderHeaders(snap.method, snap.content_type),
                                   snap.headers)]
    ELSE [error |-> TRUE, method |-> snap.method, url |-> snap.url, body |-> NoBody,
          set_headers |-> EmptyHeaders, headers |-> EmptyHeaders]

(***************************************************************************)
(* The dispatch thread: classifying the outcome (lines 721-805)            *)
(***************************************************************************)
\* StatusCode::canonical_reason().unwrap_or(""), for the codes of the model
CanonicalReason(code) ==
    IF code = 200 THEN <<"O", "K">>
    ELSE IF code = 404 THEN <<"N", "o", "t", " ", "F", "o", "u", "n", "d">>
    ELSE <<>>

\* format!("{} {}", code, reason)
StatusLine(code) == Decimal(code) \o <<" ">> \o CanonicalReason(code)

\* the header map of a response: content-type and content-disposition, when
\* the server sends them
ResponseHeaderMap(resp) ==
    (IF IsSome(resp.ct) THEN {[name |-> H_content_type, value |-> Unwrap(resp.ct)]} ELSE {})
    \cup
    (IF IsSome(resp.cd) THEN {[name |-> H_content_disposition, value |-> Unwrap(resp.cd)]}
     ELSE {})

\* a byte of a header value beyond ASCII (obs-text), here 0xE9
ObsText == "é"

\* Debug for HeaderValue: a '"' is written as \" and a byte that is not visible
\* ASCII as \x and its hexadecimal digits
RECURSIVE DebugValue(_)
DebugValue(v) ==
    IF v = <<>> THEN <<>>
    ELSE (IF Head(v) = "\"" THEN <<"\\", "\"">>
          ELSE IF Head(v) = ObsText THEN <<"\\", "x", "e", "9">>
          ELSE <<Head(v)>>) \o DebugValue(Tail(v))

\* format!("{:#?}", headers_map): one indented line per entry
DebugEntry(m, name) ==
    IF IsSome(HeaderGet(m, name))
    THEN <<" ", " ", " ", " ", "\"">> \o name \o <<"\"", ":", " ", "\"">> \o
         DebugValue(Unwrap(HeaderGet(m, name))) \o <<"\"", ",", "\n">>
    ELSE <<>>

DebugFormat(m) ==
    <<"{", "\n">> \o DebugEntry(m, H_content_type) \o DebugEntry(m, H_content_disposition)
    \o <<"}">>

\* lines 732-736
ContentTypeOf(m) ==
    LET v == HeaderGet(m, H_content_type)
        str == IF IsSome(v) THEN HeaderValueToStr(Unwrap(v)) ELSE None
    IN IF IsSome(str) THEN Unwrap(str) ELSE <<>>

\* variant of IsBinary: the prefixes are matched without regard to case
IsBinary_anyCase(content_type) ==
    LET lower == [i \in 1..Len(content_type) |-> ToAsciiLowercase(content_type[i])]
    IN \/ StartsWith(lower, P_image)
       \/ StartsWith(lower, P_pdf)
       \/ StartsWith(lower, P_octet)
       \/ StartsWith(lower, P_video)
       \/ StartsWith(lower, P_audio)

\* lines 738-742
IsBinary(content_type) ==
    \/ StartsWith(content_type, P_image)
    \/ StartsWith(content_type, P_pdf)
    \/ StartsWith(content_type, P_octet)
    \/ StartsWith(content_type, P_video)
    \/ StartsWith(content_type, P_audio)

\* s.split("filename=").nth(1): the piece between the first occurrence of the
\* pattern and the next one (or the end); None when the pattern does not occur
SplitNth1(s, pat) ==
    LET i == Find(s, pat)
        rest == SubSeq(s, i + Len(pat), Len(s))
        j == Find(rest, pat)
    IN IF i = 0 THEN None
       ELSE IF j = 0 THEN Some(rest) ELSE Some(SubSeq(rest, 1, j - 1))

\* url.split('/').last(): split always yields a piece, the last one is what
\* follows the last '/', so last() is never None
UrlLastSegment(u) == Some(SubSeq(u, RFindChar(u, "/") + 1, Len(u)))

\* lines 745-755
FilenameOf(m, u) ==
    LET v == HeaderGet(m, H_content_disposition)
        str == IF IsSome(v) THEN HeaderValueToStr(Unwrap(v)) ELSE None
        named == IF IsSome(str) THEN SplitNth1(Unwrap(str), S_filename_eq) ELSE None
        last == UrlLastSegment(u)
    IN IF IsSome(named) THEN TrimMatches(Unwrap(named), {"\"", "'"})
       ELSE IF IsSome(last) THEN Unwrap(last) ELSE S_download

\* String::from_utf8_lossy over the bytes of the model
ByteChar(b) ==
    IF b = 91 THEN "[" ELSE IF b = 93 THEN "]" ELSE IF b = 49 THEN "1"
    ELSE IF b = 104 THEN "h" ELSE IF b = 105 THEN "i" ELSE IF b = 80 THEN "P"
    ELSE IF b = 32 THEN " " ELSE "\\"

DecodeText(bytes) == [i \in 1..Len(bytes) |-> ByteChar(bytes[i])]

\* serde_json::from_str followed by to_string_pretty, for the JSON documents
\* the model's payloads can spell: a number of digits 1, or an array holding
\* one such number, with surrounding blanks.  None when the text is no JSON.
JsonPretty(text) ==
    LET t == TrimMatches(text, {" "})
        isNum(n) == Len(n) > 0 /\ Range(n) \subseteq {"1"}
        inner == IF Len(t) >= 2 THEN TrimMatches(SubSeq(t, 2, Len(t) - 1), {" "}) ELSE <<>>
    IN IF isNum(t) THEN Some(t)
       ELSE IF Len(t) >= 2 /\ t[1] = "[" /\ t[Len(t)] = "]"
       THEN IF inner = <<>> THEN Some(<<"[", "]">>)
            ELSE IF isNum(inner) THEN Some(<<"[", "\n", " ", " ">> \o inner \o <<"\n", "]">>)
            ELSE None
       ELSE None

\* variant of ReadBody: the text branch hands the payload on as bytes too
ReadBody_textKeepsBytes(resp, is_binary, content_type) ==
    IF is_binary
    THEN IF IsSome(resp.read_err)
         THEN [body |-> S_err_binary \o Unwrap(resp.read_err), bytes |-> <<>>]
         ELSE [body |-> S_binary_file \o Decimal(Len(resp.payload)) \o S_bytes_ct
                        \o content_type,
               bytes |-> resp.payload]
    ELSE [body |-> IF IsSome(resp.read_err) THEN S_err_body \o Unwrap(resp.read_err)
                   ELSE DecodeText(resp.payload),
          bytes |-> resp.payload]

\* lines 757-784: (body, bytes)
ReadBody(resp, is_binary, content_type) ==
    IF is_binary
    THEN IF IsSome(resp.read_err)
         THEN [body |-> S_err_binary \o Unwrap(resp.read_err), bytes |-> <<>>]
         ELSE [body |-> S_binary_file \o Decimal(Len(resp.payload)) \o S_bytes_ct
                        \o content_type,
               bytes |-> resp.payload]
    ELSE LET body_text == IF IsSome(resp.read_err)
                          THEN S_err_body \o Unwrap(resp.read_err)
                          ELSE DecodeText(resp.payload)
             pretty == JsonPretty(body_text)
         IN [body |-> IF IsSome(pretty) THEN Unwrap(pretty) ELSE body_text, bytes |-> <<>>]

\* lines 722-795: the HttpResponse of a received response
ClassifyResponse(resp, u) ==
    LET headers_map == ResponseHeaderMap(resp)
        content_type == ContentTypeOf(headers_map)
        is_binary == IsBinary(content_type)
        read == ReadBody(resp, is_binary, content_type)
    IN [status |-> StatusLine(resp.code),
        headers |-> DebugFormat(headers_map),
        body |-> read.body,
        is_binary |-> is_binary,
        filename |-> FilenameOf(headers_map, u),
        bytes |-> read.bytes,
        content_type |-> content_type]

\* variant of ClassifyError: the message without its "Request failed: " prefix
\* and the filename fallback of the success branch
ClassifyError_asSuccess(msg) ==
    [status |-> S_Error,
     headers |-> <<>>,
     body |-> msg,
     is_binary |-> FALSE,
     filename |-> S_download,
     bytes |-> <<>>,
     content_type |-> <<>>]

\* lines 796-804: the HttpResponse of a failed exchange
ClassifyError(msg) ==
    [status |-> S_Error,
     headers |-> <<>>,
     body |-> S_request_failed \o msg,
     is_binary |-> FALSE,
     filename |-> <<>>,
     bytes |-> <<>>,
     content_type |-> <<>>]

\* the match at line 721
Classify(outcome, u) ==
    IF outcome.kind = "ok" THEN ClassifyResponse(outcome, u) ELSE ClassifyError(outcome.msg)

(***************************************************************************)
(* State                                                                   *)
(***************************************************************************)
VARIABLES
    \* MyApp: request configuration
    url, method, headers, body, auth_type, bearer_token, content_type, form_data,
    \* MyApp: response data
    response_status, response_headers, response_body, is_response_binary,
    response_filename, response_bytes, response_content_type,
    \* MyApp: UI state
    loading, active_response_tab,
    \* the mpsc channel: the HttpResponses sent and not yet received, oldest
    \* first, each with the number of the dispatch that sent it
    rx,
    \* the dispatch threads spawned so far, threads[d] being the d-th
    threads,
    \* the environment: what the server answers, the paths std::fs::read can read
    server, readable,
    \* how many dispatches the behaviour may start
    limit,
    \* how many edits of the request configuration the user has made
    edits,
    \* what the dispatches have done so far, in order: a "spawn" entry per
    \* thread started, a "send" entry per tx.send, a "recv" entry per result
    \* try_recv returned, each with the dispatch number
    log

configVars == <<url, method, headers, body, auth_type, bearer_token, content_type, form_data>>
responseVars == <<response_status, response_headers, response_body, is_response_binary,
                  response_filename, response_bytes, response_content_type>>
envVars == <<server, readable, limit, edits>>
vars == <<configVars, responseVars, loading, active_response_tab, rx, threads, envVars, log>>

(***************************************************************************)
(* Bounds and the inputs the specifications draw from                      *)
(***************************************************************************)
MaxDispatch == 2
MaxHeaderLines == 2
MaxFields == 2
MaxEdits == 2

\* "https://x.test/report", "https://x.test/", "https://x.test/a/b.png"
UrlReport == <<"h", "t", "t", "p", "s", ":", "/", "/", "x", ".", "t", "e", "s", "t", "/", "r",
    "e", "p", "o", "r", "t">>
UrlSlash == <<"h", "t", "t", "p", "s", ":", "/", "/", "x", ".", "t", "e", "s", "t", "/">>
UrlDeep == <<"h", "t", "t", "p", "s", ":", "/", "/", "x", ".", "t", "e", "s", "t", "/", "a",
    "/", "b", ".", "p", "n", "g">>
Urls == {DefaultUrl, UrlReport, UrlSlash, UrlDeep, <<>>, <<" ">>, <<"x">>}

\* "Authorization: token-1", "authorization: token-0", "Content-Type: text/plain",
\* "# comment", "X-Foo: bar", "malformed"
LineAuth == <<"A", "u", "t", "h", "o", "r", "i", "z", "a", "t", "i", "o", "n", ":", " ", "t",
    "o", "k", "e", "n", "-", "1">>
LineAuthLower == <<"a", "u", "t", "h", "o", "r", "i", "z", "a", "t", "i", "o", "n", ":", " ",
    "t", "o", "k", "e", "n", "-", "0">>
LineContentType == <<"C", "o", "n", "t", "e", "n", "t", "-", "T", "y", "p", "e", ":", " ", "t",
    "e", "x", "t", "/", "p", "l", "a", "i", "n">>
LineComment == <<"#", " ", "c", "o", "m", "m", "e", "n", "t">>
LineXFoo == <<"X", "-", "F", "o", "o", ":", " ", "b", "a", "r">>
LineNoColon == <<"m", "a", "l", "f", "o", "r", "m", "e", "d">>
HeaderLines == {LineAuth, LineAuthLower, LineContentType, LineComment, LineXFoo, LineNoColon}

RECURSIVE JoinLines(_)
JoinLines(ls) ==
    IF Len(ls) = 0 THEN <<>>
    ELSE IF Len(ls) = 1 THEN ls[1]
    ELSE ls[1] \o <<"\n">> \o JoinLines(Tail(ls))

\* every header text of at most MaxHeaderLines of these lines
HeaderTexts ==
    {JoinLines(ls) : ls \in UNION {[1..n -> HeaderLines] : n \in 0..MaxHeaderLines}}

\* The header lines parsing is checked on: "A: 1", "A: 2", "a: 2", blanks, an
\* indented comment, a value with a ':' in it, a line without ':', a name with
\* a blank in it, an empty name, a value with a control character in it, a
\* padded line ending in a carriage return, an empty value; and the text
\* "# comment\n\nX-Foo: bar"
PlA1 == <<"A", ":", " ", "1">>
PlA2 == <<"A", ":", " ", "2">>
PlLowerA2 == <<"a", ":", " ", "2">>
PlBlanks == <<" ", "\t">>
PlIndentedComment == <<" ", " ", "#", "A", ":", " ", "1">>
PlTwoColons == <<"A", ":", "1", ":", "2">>
PlNoColon == <<"A", " ", "1">>
PlBadName == <<"A", " ", "b", ":", " ", "1">>
PlNoName == <<":", " ", "1">>
PlBadValue == <<"A", ":", " ", "1", "\f", "2">>
PlPadded == <<" ", "A", " ", ":", " ", "3", " ", "\r">>
PlNoValue == <<"A", ":">>
ExampleCommentBlankXFoo == <<"#", " ", "c", "o", "m", "m", "e", "n", "t", "\n", "\n", "X", "-",
    "F", "o", "o", ":", " ", "b", "a", "r">>
ParseLines == {PlA1, PlA2, PlLowerA2, PlBlanks, PlIndentedComment, PlTwoColons, PlNoColon,
               PlBadName, PlNoName, PlBadValue, PlPadded, PlNoValue, LineComment, LineXFoo, <<>>}
\* every header text of at most MaxHeaderLines of these lines, and the example
ParseTexts ==
    {JoinLines(ls) : ls \in UNION {[1..n -> ParseLines] : n \in 0..MaxHeaderLines}}
    \cup {ExampleCommentBlankXFoo}

\* "", "token-2", and a token pasted with a form feed at its end
TokenValid == <<"t", "o", "k", "e", "n", "-", "2">>
TokenControl == <<"t", "k", "\f">>
Tokens == {<<>>, TokenValid, TokenControl}

Bodies == {DefaultBody, <<>>}

PathA == <<"/", "d", "/", "a", ".", "t", "x", "t">>
PathB == <<"/", "d", "/", "b", ".", "t", "x", "t">>
Paths == {PathA, PathB}
FileLists == {<<>>, <<PathA, PathB>>}
Keys == {<<>>, <<"a">>, <<"b">>}

\* The fields the form editor can hold (lines 286-372): choosing a type in the
\* combo box clears value and files, the value is editable only for a Text
\* field and files are picked only for a File field, so a File field has an
\* empty value and a Text field has no files.
Fields ==
    {[key |-> k, value |-> <<"v">>, files |-> <<>>, field_type |-> "Text"] : k \in Keys}
    \cup
    {[key |-> k, value |-> <<>>, files |-> fl, field_type |-> "File"] :
        k \in Keys, fl \in FileLists}
Forms == UNION {[1..n -> Fields] : n \in 0..MaxFields}

MsgBuilder == <<"b", "u", "i", "l", "d", "e", "r", " ", "e", "r", "r", "o", "r">>
MsgConnect == <<"c", "o", "n", "n", "e", "c", "t", "i", "o", "n", " ", "r", "e", "f", "u", "s",
    "e", "d">>
MsgDecode == <<"e", "r", "r", "o", "r", " ", "d", "e", "c", "o", "d", "i", "n", "g">>

CtImagePng == <<"i", "m", "a", "g", "e", "/", "p", "n", "g">>
CtImageUpper == <<"I", "m", "a", "g", "e", "/", "p", "n", "g">>
CtTextPlain == <<"t", "e", "x", "t", "/", "p", "l", "a", "i", "n">>
\* "image/" followed by a byte beyond ASCII, "application/pdf", "audio/ogg"
CtImageObs == <<"i", "m", "a", "g", "e", "/", ObsText>>
CtPdf == <<"a", "p", "p", "l", "i", "c", "a", "t", "i", "o", "n", "/", "p", "d", "f">>
CtAudio == <<"a", "u", "d", "i", "o", "/", "o", "g", "g">>
\* attachment; filename="r.pdf"
CdAttachment == <<"a", "t", "t", "a", "c", "h", "m", "e", "n", "t", ";", " ", "f", "i", "l",
    "e", "n", "a", "m", "e", "=", "\"", "r", ".", "p", "d", "f", "\"">>
CdInline == <<"i", "n", "l", "i", "n", "e">>

\* Err(e) of request.send()
TransportError(msg) ==
    [kind |-> "err", msg |-> msg, code |-> 0, ct |-> None, cd |-> None,
     payload |-> <<>>, read_err |-> None]
\* Ok(resp): status code, content-type and content-disposition headers, the
\* payload, and the error (if any) that reading the payload ends in
Response(code, ct, cd, payload, read_err) ==
    [kind |-> "ok", msg |-> <<>>, code |-> code, ct |-> ct, cd |-> cd,
     payload |-> payload, read_err |-> read_err]

Payloads == {<<>>, <<91, 49, 93>>, <<137, 80>>}
Servers ==
    {TransportError(MsgConnect)} \cup
    {Response(code, ct, cd, payload, re) :
        code \in {200, 404, 599},
        ct \in {None, Some(CtImagePng), Some(CtImageUpper), Some(CtTextPlain)},
        cd \in {None, Some(CdAttachment), Some(CdInline)},
        payload \in Payloads,
        re \in {None, Some(MsgDecode)}}
    \cup
    {Response(200, Some(ct), None, <<137, 80>>, None) : ct \in {CtImageObs, CtPdf, CtAudio}}
DefaultServer == Response(200, Some(CtTextPlain), None, <<91, 49, 93>>, None)
FewServers ==
    {TransportError(MsgConnect), DefaultServer,
     Response(404, Some(CtImagePng), None, <<137, 80>>, None)}

DefaultForm == <<[key |-> <<>>, value |-> <<>>, files |-> <<>>, field_type |-> "Text"]>>

\* what the user's edits choose among
EditUrls == {DefaultUrl, UrlReport}
EditHeaderTexts == {DefaultHeaders, LineXFoo}
EditTokens == {<<>>, TokenValid}
EditForms ==
    {DefaultForm,
     <<[key |-> <<"a">>, value |-> <<"v">>, files |-> <<>>, field_type |-> "Text"]>>}

(***************************************************************************)
(* Initial states                                                          *)
(***************************************************************************)
\* Default for MyApp (lines 105-143)
InitConfig ==
    /\ url = DefaultUrl
    /\ method = "GET"
    /\ headers = DefaultHeaders
    /\ body = DefaultBody
    /\ auth_type = "None"
    /\ bearer_token = <<>>
    /\ content_type = "Json"
    /\ form_data = DefaultForm

InitRest ==
    /\ response_status = <<>>
    /\ response_headers = <<>>
    /\ response_body = <<>>
    /\ is_response_binary = FALSE
    /\ response_filename = <<>>
    /\ response_bytes = <<>>
    /\ response_content_type = <<>>
    /\ loading = FALSE
    /\ active_response_tab = "None"
    /\ rx = <<>>
    /\ threads = <<>>
    /\ edits = 0
    /\ log = <<>>

\* the application as constructed, before a server that may be in any of a
\* few states
Init ==
    /\ InitConfig
    /\ InitRest
    /\ server \in FewServers
    /\ readable = {}
    /\ limit = MaxDispatch

\* the application after the user has chosen method, body encoding, header
\* text, auth type and token
InitRequest ==
    /\ url = DefaultUrl
    /\ method \in HttpMethod
    /\ headers \in HeaderTexts
    /\ body = DefaultBody
    /\ auth_type \in AuthType
    /\ bearer_token \in Tokens
    /\ content_type \in ContentType
    /\ form_data = DefaultForm
    /\ InitRest
    /\ server = DefaultServer
    /\ readable = {}
    /\ limit = 1

\* the application after the user has written the header text
InitHeaders ==
    /\ url = DefaultUrl
    /\ method = "GET"
    /\ headers \in ParseTexts
    /\ body = DefaultBody
    /\ auth_type = "None"
    /\ bearer_token = <<>>
    /\ content_type = "Json"
    /\ form_data = DefaultForm
    /\ InitRest
    /\ server = DefaultServer
    /\ readable = {}
    /\ limit = 1

\* the application after the user has chosen method, body encoding, body and
\* form fields, over each state of the file system
InitForm ==
    /\ url = DefaultUrl
    /\ method \in HttpMethod
    /\ headers = DefaultHeaders
    /\ body \in Bodies
    /\ auth_type = "None"
    /\ bearer_token = <<>>
    /\ content_type \in ContentType
    /\ form_data \in Forms
    /\ InitRest
    /\ server = DefaultServer
    /\ readable \in {{PathA}, Paths}
    /\ limit = 1

\* the application after the user has chosen method, auth type and body
\* encoding, about to go on editing
InitEdit ==
    /\ url = DefaultUrl
    /\ method \in {"GET", "POST"}
    /\ headers = DefaultHeaders
    /\ body = DefaultBody
    /\ auth_type \in AuthType
    /\ bearer_token = <<>>
    /\ content_type \in ContentType
    /\ form_data = DefaultForm
    /\ InitRest
    /\ server = DefaultServer
    /\ readable = {}
    /\ limit = 1

\* the application after the user has edited the URL, before each server
InitResponse ==
    /\ url \in Urls
    /\ method = "GET"
    /\ headers = DefaultHeaders
    /\ body = DefaultBody
    /\ auth_type = "None"
    /\ bearer_token = <<>>
    /\ content_type = "Json"
    /\ form_data = DefaultForm
    /\ InitRest
    /\ server \in Servers
    /\ readable = {}
    /\ limit = 1

(***************************************************************************)
(* The interactive thread: update (lines 830-948) and send_request         *)
(***************************************************************************)
\* lines 566-583: what send_request hands to the thread.  raw_headers is not
\* handed over; it records the header text the header map was parsed from.
Snapshot ==
    [url |-> url, method |-> method, body |-> body,
     headers |-> SnapshotHeaders(headers, auth_type, bearer_token),
     auth_type |-> auth_type, bearer_token |-> bearer_token,
     content_type |-> content_type, form_data |-> form_data,
     raw_headers |-> headers]

\* a thread as std::thread::spawn starts it (line 585); sent counts its
\* tx.send calls, exchanges its request.send() calls
Spawned(snap) ==
    [pc |-> "spawned", snap |-> snap, request |-> None, outcome |-> None,
     response |-> None, sent |-> 0, exchanges |-> 0]

\* variant of Polled: the poll forgets response_bytes, which keeps the bytes of
\* the result shown before
Polled_keepsBytes ==
    IF rx # <<>>
    THEN LET resp == Head(rx).resp
         IN [status |-> resp.status, headers |-> resp.headers, body |-> resp.body,
             is_binary |-> resp.is_binary, filename |-> resp.filename,
             bytes |-> response_bytes, content_type |-> resp.content_type,
             loading |-> FALSE, tab |-> "Body", rx |-> Tail(rx)]
    ELSE [status |-> response_status, headers |-> response_headers,
          body |-> response_body, is_binary |-> is_response_binary,
          filename |-> response_filename, bytes |-> response_bytes,
          content_type |-> response_content_type,
          loading |-> loading, tab |-> active_response_tab, rx |-> rx]

\* variant of Polled: every queued result is applied in turn (while let), the
\* newest one stays on display and the queue is left empty
Polled_drains ==
    IF rx # <<>>
    THEN LET resp == rx[Len(rx)].resp
         IN [status |-> resp.status, headers |-> resp.headers, body |-> resp.body,
             is_binary |-> resp.is_binary, filename |-> resp.filename,
             bytes |-> resp.bytes, content_type |-> resp.content_type,
             loading |-> FALSE, tab |-> "Body", rx |-> <<>>]
    ELSE [status |-> response_status, headers |-> response_headers,
          body |-> response_body, is_binary |-> is_response_binary,
          filename |-> response_filename, bytes |-> response_bytes,
          content_type |-> response_content_type,
          loading |-> loading, tab |-> active_response_tab, rx |-> rx]

\* lines 832-842: the state the poll at the top of update leaves
Polled ==
    IF rx # <<>>
    THEN LET resp == Head(rx).resp
         IN [status |-> resp.status, headers |-> resp.headers, body |-> resp.body,
             is_binary |-> resp.is_binary, filename |-> resp.filename,
             bytes |-> resp.bytes, content_type |-> resp.content_type,
             loading |-> FALSE, tab |-> "Body", rx |-> Tail(rx)]
    ELSE [status |-> response_status, headers |-> response_headers,
          body |-> response_body, is_binary |-> is_response_binary,
          filename |-> response_filename, bytes |-> response_bytes,
          content_type |-> response_content_type,
          loading |-> loading, tab |-> active_response_tab, rx |-> rx]

\* the channel traffic after the poll
PolledLog == IF rx # <<>> THEN Append(log, [ev |-> "recv", id |-> Head(rx).id]) ELSE log

\* lines 893-896: the Send button can be clicked only while it is enabled
SendEnabled(isLoading) == ~isLoading

\* lines 909-913: && binds tighter than ||, so the URL is looked at only on
\* the Enter path
ShouldSend(clicked, enterAfterFocusLost) ==
    clicked \/ (enterAfterFocusLost /\ url # <<>>)

\* lines 561-574, 585: send_request, called after the poll of the same frame
send_request ==
    /\ loading' = TRUE
    /\ response_body' = S_Loading
    /\ response_status' = <<>>
    /\ threads' = Append(threads, Spawned(Snapshot))

\* one call of update, but for what the user edits in it: the poll, then the
\* Send button and the URL field
Frame(clicked, enterAfterFocusLost) ==
    LET p == Polled
    IN /\ rx' = p.rx
       /\ log' = IF ShouldSend(clicked, enterAfterFocusLost)
                 THEN Append(PolledLog, [ev |-> "spawn", id |-> Len(threads) + 1])
                 ELSE PolledLog
       /\ response_headers' = p.headers
       /\ is_response_binary' = p.is_binary
       /\ response_filename' = p.filename
       /\ response_bytes' = p.bytes
       /\ response_content_type' = p.content_type
       /\ active_response_tab' = p.tab
       /\ IF ShouldSend(clicked, enterAfterFocusLost)
          THEN send_request
          ELSE /\ loading' = p.loading
               /\ response_body' = p.body
               /\ response_status' = p.status
               /\ threads' = threads
       /\ UNCHANGED <<server, readable, limit>>

\* one call of update in which the user edits nothing
update(clicked, enterAfterFocusLost) ==
    /\ Frame(clicked, enterAfterFocusLost)
    /\ UNCHANGED <<configVars, edits>>

\* A frame in which the user edits one field of the request configuration
\* and neither clicks Send nor presses Enter.  The widgets shown depend on
\* the configuration: the Body tab on the method (lines 198-223), the body
\* editor and the form editor on the encoding (261-276), the token field on
\* the auth type (453).
EditFrame ==
    /\ edits < MaxEdits
    /\ edits' = edits + 1
    /\ Frame(FALSE, FALSE)

BodyTabShown == method \in {"POST", "PUT", "PATCH"}

\* lines 898-908
EditUrl ==
    /\ EditFrame
    /\ url' \in EditUrls \ {url}
    /\ UNCHANGED <<method, headers, body, auth_type, bearer_token, content_type, form_data>>

\* lines 872-889
EditMethod ==
    /\ EditFrame
    /\ method' \in HttpMethod \ {method}
    /\ UNCHANGED <<url, headers, body, auth_type, bearer_token, content_type, form_data>>

\* lines 417-429
EditHeaders ==
    /\ EditFrame
    /\ headers' \in EditHeaderTexts \ {headers}
    /\ UNCHANGED <<url, method, body, auth_type, bearer_token, content_type, form_data>>

\* lines 262-275
EditBody ==
    /\ BodyTabShown
    /\ content_type = "Json"
    /\ EditFrame
    /\ body' \in Bodies \ {body}
    /\ UNCHANGED <<url, method, headers, auth_type, bearer_token, content_type, form_data>>

\* lines 431-451
EditAuthType ==
    /\ EditFrame
    /\ auth_type' \in AuthType \ {auth_type}
    /\ UNCHANGED <<url, method, headers, body, bearer_token, content_type, form_data>>

\* lines 453-464
EditBearerToken ==
    /\ auth_type = "Bearer"
    /\ EditFrame
    /\ bearer_token' \in EditTokens \ {bearer_token}
    /\ UNCHANGED <<url, method, headers, body, auth_type, content_type, form_data>>

\* lines 225-244
EditContentType ==
    /\ BodyTabShown
    /\ EditFrame
    /\ content_type' \in ContentType \ {content_type}
    /\ UNCHANGED <<url, method, headers, body, auth_type, bearer_token, form_data>>

\* lines 276-414
EditFormData ==
    /\ BodyTabShown
    /\ content_type = "FormData"
    /\ EditFrame
    /\ form_data' \in EditForms \ {form_data}
    /\ UNCHANGED <<url, method, headers, body, auth_type, bearer_token, content_type>>

\* a frame without a click on Send and without Enter in the URL field
UpdateIdle == update(FALSE, FALSE)

\* a frame in which the user clicks Send
UpdateClick ==
    /\ SendEnabled(Polled.loading)
    /\ Len(threads) < limit
    /\ update(TRUE, FALSE)

\* a frame in which the URL field loses focus with Enter pressed
UpdateEnter ==
    /\ Len(threads) < limit
    /\ update(FALSE, TRUE)

\* lines 944-947: update requests a repaint as its last step iff loading is
\* true, and loading changes only inside update, so between two frames a
\* repaint is pending exactly while loading is true
RepaintRequested == loading

\* the frame the event loop runs because the last frame requested a repaint:
\* no click, no key
UpdateRepaint ==
    /\ RepaintRequested
    /\ update(FALSE, FALSE)

(***************************************************************************)
(* The dispatch thread (lines 585-809), one action per step                *)
(***************************************************************************)
Dispatches == 1..Len(threads)

Step(d, rec) ==
    /\ threads' = [threads EXCEPT ![d] = rec]
    /\ UNCHANGED <<configVars, responseVars, loading, active_response_tab, rx, envVars, log>>

\* line 586: tokio::runtime::Runtime::new() returns Ok
RuntimeNew(d) ==
    /\ d \in Dispatches
    /\ threads[d].pc = "spawned"
    /\ Step(d, [threads[d] EXCEPT !.pc = "runtime"])

\* line 586: Runtime::new() returns Err (the OS refuses the threads or the
\* descriptors) and unwrap panics: the thread ends
RuntimeNewFails(d) ==
    /\ d \in Dispatches
    /\ threads[d].pc = "spawned"
    /\ Step(d, [threads[d] EXCEPT !.pc = "panicked"])

\* line 588: reqwest::Client::new()
ClientNew(d) ==
    /\ d \in Dispatches
    /\ threads[d].pc = "runtime"
    /\ Step(d, [threads[d] EXCEPT !.pc = "client"])

\* line 588: Client::new() panics when the TLS backend cannot be initialised
ClientNewPanics(d) ==
    /\ d \in Dispatches
    /\ threads[d].pc = "runtime"
    /\ Step(d, [threads[d] EXCEPT !.pc = "panicked"])

\* variant of Build: the thread reads the fields of MyApp as they are when it
\* builds the request, not the copies send_request made
Build_readsLive(d) ==
    /\ d \in Dispatches
    /\ threads[d].pc = "client"
    /\ Step(d, [threads[d] EXCEPT !.pc = "built",
                                  !.request = Some(BuildRequest(Snapshot, readable))])

\* lines 590-719
Build(d) ==
    /\ d \in Dispatches
    /\ threads[d].pc = "client"
    /\ Step(d, [threads[d] EXCEPT !.pc = "built",
                                  !.request = Some(BuildRequest(threads[d].snap, readable))])

\* line 721: request.send().await
Exchange(d) ==
    /\ d \in Dispatches
    /\ threads[d].pc = "built"
    /\ Step(d, [threads[d] EXCEPT
                    !.pc = "exchanged",
                    !.exchanges = @ + 1,
                    !.outcome = Some(IF Unwrap(threads[d].request).error
                                     THEN TransportError(MsgBuilder)
                                     ELSE server)])

\* lines 722-805
ClassifyOutcome(d) ==
    /\ d \in Dispatches
    /\ threads[d].pc = "exchanged"
    /\ Step(d, [threads[d] EXCEPT
                    !.pc = "classified",
                    !.response = Some(Classify(Unwrap(threads[d].outcome),
                                               threads[d].snap.url))])

\* variant of Deliver: the thread sends and comes back to send again
Deliver_resend(d) ==
    /\ d \in Dispatches
    /\ threads[d].pc = "classified"
    /\ threads' = [threads EXCEPT ![d] = [@ EXCEPT !.sent = @ + 1]]
    /\ rx' = Append(rx, [id |-> d, resp |-> Unwrap(threads[d].response)])
    /\ log' = Append(log, [ev |-> "send", id |-> d])
    /\ UNCHANGED <<configVars, responseVars, loading, active_response_tab, envVars>>

\* line 808: let _ = tx.send(response)
Deliver(d) ==
    /\ d \in Dispatches
    /\ threads[d].pc = "classified"
    /\ threads' = [threads EXCEPT ![d] = [@ EXCEPT !.pc = "done", !.sent = @ + 1]]
    /\ rx' = Append(rx, [id |-> d, resp |-> Unwrap(threads[d].response)])
    /\ log' = Append(log, [ev |-> "send", id |-> d])
    /\ UNCHANGED <<configVars, responseVars, loading, active_response_tab, envVars>>

Thread(d) ==
    \/ RuntimeNew(d)
    \/ RuntimeNewFails(d)
    \/ ClientNew(d)
    \/ ClientNewPanics(d)
    \/ Build(d)
    \/ Exchange(d)
    \/ ClassifyOutcome(d)
    \/ Deliver(d)

\* the server changes what it answers
ServerChange ==
    /\ server' \in FewServers \ {server}
    /\ UNCHANGED <<configVars, responseVars, loading, active_response_tab, rx, threads,
                   readable, limit, edits, log>>

(***************************************************************************)
(* Specifications                                                          *)
(***************************************************************************)
NextCore ==
    \/ UpdateIdle
    \/ UpdateClick
    \/ UpdateEnter
    \/ \E d \in 1..MaxDispatch : Thread(d)

Next ==
    \/ NextCore
    \/ ServerChange

NextEdit ==
    \/ NextCore
    \/ EditUrl
    \/ EditMethod
    \/ EditHeaders
    \/ EditBody
    \/ EditAuthType
    \/ EditBearerToken
    \/ EditContentType
    \/ EditFormData

\* the application from construction, dispatches overlapping
Spec == Init /\ [][Next]_vars
\* one dispatch of each request configuration
SpecRequest == InitRequest /\ [][NextCore]_vars
\* one dispatch of each header text
SpecHeaders == InitHeaders /\ [][NextCore]_vars
\* one dispatch, the user editing the configuration before and after it
SpecEdit == InitEdit /\ [][NextEdit]_vars
\* one dispatch of each form
SpecForm == InitForm /\ [][NextCore]_vars
\* one dispatch of each URL, against each server
SpecResponse == InitResponse /\ [][NextCore]_vars

NextRepaint ==
    \/ Next
    \/ UpdateRepaint

\* the application from construction under the event loop's guarantee: a
\* requested repaint is followed by a call of update; frames caused by user
\* input may or may not come
SpecRepaint == Init /\ [][NextRepaint]_vars /\ WF_vars(UpdateRepaint)

(***************************************************************************)
(* Properties                                                              *)
(***************************************************************************)
Built(d) == IsSome(threads[d].request)
RequestOf(d) == Unwrap(threads[d].request)
Outcome(d) == Unwrap(threads[d].outcome)
Result(d) == Unwrap(threads[d].response)
Ended(d) == threads[d].pc \in {"done", "panicked"}
SentOnChannel(d) == {i \in 1..Len(rx) : rx[i].id = d}

\* C1: a dispatch puts at most one HttpResponse on the channel: its thread
\* calls tx.send at most once, the channel never holds two results of one
\* dispatch, and the exchange is attempted at most once (no retry).
C1_AtMostOneResultPerDispatch ==
    \A d \in Dispatches :
        /\ threads[d].sent <= 1
        /\ threads[d].exchanges <= 1
        /\ Cardinality(SentOnChannel(d)) <= threads[d].sent

\* a dispatch whose exchange failed has ended, having sent its one result
C1_Witness ==
    \E d \in Dispatches :
        /\ threads[d].pc = "done"
        /\ Outcome(d).kind = "err"
        /\ threads[d].sent = 1

\* C2: every dispatch that has ended has delivered exactly one result: no step
\* of the thread ends it without a result having been sent.
C2_EveryEndedDispatchDelivered ==
    \A d \in Dispatches : Ended(d) => threads[d].sent = 1

\* C3: no dispatch is ever started for a URL that is empty or all whitespace.
C3_BlankUrlNeverDispatched ==
    \A d \in Dispatches : Trim(threads[d].snap.url) # <<>>

\* C4: when the exchange fails, the result is exactly status "Error", empty
\* headers, body "Request failed: <message>", not binary, no bytes, empty
\* filename and content type; the exchange was attempted once and the thread
\* only goes on to deliver that result.
C4_TransportFailureResult ==
    \A d \in Dispatches :
        (IsSome(threads[d].outcome) /\ Outcome(d).kind = "err") =>
            LET expected == [status |-> <<"E", "r", "r", "o", "r">>,
                             headers |-> <<>>,
                             body |-> S_request_failed \o Outcome(d).msg,
                             is_binary |-> FALSE,
                             filename |-> <<>>,
                             bytes |-> <<>>,
                             content_type |-> <<>>]
            IN /\ threads[d].exchanges = 1
               /\ threads[d].pc \in {"exchanged", "classified", "done"}
               /\ IsSome(threads[d].response) => Result(d) = expected
               /\ \A i \in SentOnChannel(d) : rx[i].resp = expected

\* the result of a refused connection is on the channel
C4_Witness ==
    \E d \in Dispatches :
        /\ IsSome(threads[d].outcome)
        /\ Outcome(d) = TransportError(MsgConnect)
        /\ SentOnChannel(d) # {}

\* what the raw header text of a dispatch yields under a header name
RawHeader(d, name) == HeaderGet(parse_headers(threads[d].snap.raw_headers), name)
BearerActive(d) ==
    threads[d].snap.auth_type = "Bearer" /\ threads[d].snap.bearer_token # <<>>
Sends(d) == Built(d) /\ ~RequestOf(d).error

\* C5 as stated: whenever bearer auth is active (type Bearer, token not
\* empty), the outbound Authorization header is "Bearer <token>", whatever the
\* raw header text holds.
C5_BearerAlwaysSet ==
    \A d \in Dispatches :
        (Sends(d) /\ BearerActive(d)) =>
            HeaderGet(RequestOf(d).headers, H_AUTHORIZATION)
                = Some(S_Bearer \o threads[d].snap.bearer_token)

\* C5, amended: whenever bearer auth is active and the token holds no control
\* character, the outbound Authorization header is "Bearer <token>", whatever
\* the raw header text holds; when the token holds a control character the
\* builder sets no Authorization header and the header is what the raw header
\* text yields.
C5_ValidBearerOverridesRawAuthorization ==
    \A d \in Dispatches :
        (Sends(d) /\ BearerActive(d)) =>
            IF Range(threads[d].snap.bearer_token) \cap ControlChars = {}
            THEN HeaderGet(RequestOf(d).headers, H_AUTHORIZATION)
                    = Some(S_Bearer \o threads[d].snap.bearer_token)
            ELSE HeaderGet(RequestOf(d).headers, H_AUTHORIZATION)
                    = RawHeader(d, H_AUTHORIZATION)

\* a request built with a valid bearer token over raw header text that has
\* an Authorization line of its own
C5_Witness ==
    \E d \in Dispatches :
        /\ Sends(d)
        /\ BearerActive(d)
        /\ threads[d].snap.bearer_token = TokenValid
        /\ IsSome(RawHeader(d, H_AUTHORIZATION))

JsonBodied(d) ==
    threads[d].snap.method \in {"POST", "PUT", "PATCH"} /\ threads[d].snap.content_type = "Json"

\* C6 as stated: for POST, PUT and PATCH with Json encoding the outbound
\* Content-Type is application/json for every raw header text.
C6_JsonContentTypeNotOverridable ==
    \A d \in Dispatches :
        (Sends(d) /\ JsonBodied(d)) =>
            HeaderGet(RequestOf(d).headers, H_content_type) = Some(S_application_json)

\* C6, amended: for POST, PUT and PATCH with Json encoding the builder sets
\* Content-Type: application/json, and the outbound Content-Type is
\* application/json unless the raw header text yields a Content-Type header,
\* whose value then replaces it.
C6_JsonContentTypeUnlessRawOverrides ==
    \A d \in Dispatches :
        (Sends(d) /\ JsonBodied(d)) =>
            /\ HeaderGet(RequestOf(d).set_headers, H_content_type) = Some(S_application_json)
            /\ HeaderGet(RequestOf(d).headers, H_content_type) =
                  IF IsSome(RawHeader(d, H_content_type))
                  THEN RawHeader(d, H_content_type)
                  ELSE Some(S_application_json)

\* a Json request built over raw header text with a Content-Type line
C6_Witness ==
    \E d \in Dispatches :
        /\ Sends(d)
        /\ JsonBodied(d)
        /\ RawHeader(d, H_content_type) = Some(CtTextPlain)

\* C7: a request with method GET or DELETE carries no body and no Content-Type
\* set by the builder, whatever the body text, the encoding and the form
\* fields are; a body is attached for POST, PUT and PATCH, and only for them.
C7_NoBodyForGetAndDelete ==
    \A d \in Dispatches :
        Sends(d) =>
            /\ threads[d].snap.method \in {"GET", "DELETE"} =>
                  /\ RequestOf(d).body.kind = "none"
                  /\ RequestOf(d).body.text = <<>>
                  /\ RequestOf(d).body.parts = <<>>
                  /\ ~IsSome(HeaderGet(RequestOf(d).set_headers, H_content_type))
                  /\ ~IsSome(HeaderGet(RequestOf(d).headers, H_content_type))
            /\ RequestOf(d).body.kind # "none" <=>
                  threads[d].snap.method \in {"POST", "PUT", "PATCH"}

\* a GET built with a body text, FormData encoding and a keyed text field
C7_Witness ==
    \E d \in Dispatches :
        /\ Sends(d)
        /\ threads[d].snap.method = "GET"
        /\ threads[d].snap.body # <<>>
        /\ threads[d].snap.content_type = "FormData"
        /\ \E i \in 1..Len(threads[d].snap.form_data) :
              /\ threads[d].snap.form_data[i].key # <<>>
              /\ threads[d].snap.form_data[i].field_type = "Text"

\* the results a dispatch has produced: the one its thread holds and the
\* ones it has put on the channel
ResultsOf(d) ==
    (IF IsSome(threads[d].response) THEN {Result(d)} ELSE {})
    \cup {rx[i].resp : i \in SentOnChannel(d)}

\* is_binary false: bytes is empty and body is the text (the failure message,
\* the read error, or the payload as text, pretty-printed when it is JSON)
TextResultOk(r, o) ==
    LET asText == [i \in 1..Len(o.payload) |-> ByteChar(o.payload[i])]
    IN /\ r.bytes = <<>>
       /\ \/ o.kind = "err" /\ r.body = S_request_failed \o o.msg
          \/ o.kind = "ok" /\ IsSome(o.read_err) /\ r.body = S_err_body \o Unwrap(o.read_err)
          \/ o.kind = "ok" /\ ~IsSome(o.read_err)
               /\ r.body \in {asText} \cup
                     (IF IsSome(JsonPretty(asText)) THEN {Unwrap(JsonPretty(asText))} ELSE {})

\* is_binary true: body is the summary or the read-error message, never the
\* payload as text, and bytes is the payload, or empty when the read failed
BinaryResultOk(r, o) ==
    /\ o.kind = "ok"
    /\ IF IsSome(o.read_err)
       THEN /\ r.body = S_err_binary \o Unwrap(o.read_err)
            /\ r.bytes = <<>>
       ELSE /\ r.body = S_binary_file \o Decimal(Len(o.payload)) \o S_bytes_ct
                          \o r.content_type
            /\ r.bytes = o.payload
    /\ r.body # [i \in 1..Len(o.payload) |-> ByteChar(o.payload[i])]

\* C8 as stated: every HttpResponse satisfies: if is_binary is false, bytes is
\* empty and body is the authoritative text; if is_binary is true, body is
\* the summary "Binary file (<n> bytes)..." or "Error reading binary data:
\* <message>", never the raw payload, and bytes holds the payload and is empty
\* only when the binary read failed.
C8_BinaryBytesEmptyOnlyOnReadFailure ==
    \A d \in Dispatches : \A r \in {rx[i].resp : i \in SentOnChannel(d)} :
        IF ~r.is_binary
        THEN TextResultOk(r, Outcome(d))
        ELSE /\ BinaryResultOk(r, Outcome(d))
             /\ r.bytes = <<>> => IsSome(Outcome(d).read_err)

\* C8, amended: as stated, except that the bytes of a binary result are empty
\* when the binary read failed and also when the payload read is itself empty.
C8_BinaryFlagGovernsBodyAndBytes ==
    \A d \in Dispatches : \A r \in ResultsOf(d) :
        IF ~r.is_binary
        THEN TextResultOk(r, Outcome(d))
        ELSE /\ BinaryResultOk(r, Outcome(d))
             /\ r.bytes = <<>> => (IsSome(Outcome(d).read_err) \/ Outcome(d).payload = <<>>)

\* a binary result holding its payload is on the channel
C8_Witness ==
    \E d \in Dispatches : \E i \in SentOnChannel(d) :
        /\ rx[i].resp.is_binary
        /\ rx[i].resp.bytes = <<137, 80>>

\* C9: with no content-disposition header the filename is the last
\* '/'-delimited segment of the request URL, and "download" when that segment
\* is empty.
C9_FilenameFallbackChain ==
    \A d \in Dispatches : \A r \in ResultsOf(d) :
        (Outcome(d).kind = "ok" /\ ~IsSome(Outcome(d).cd)) =>
            LET u == threads[d].snap.url
                segment == SubSeq(u, RFindChar(u, "/") + 1, Len(u))
            IN r.filename = IF segment = <<>> THEN S_download ELSE segment

\* C10: each File field with a key contributes one multipart part per
\* readable path of its files list, all under the field's key.
C10_OnePartPerSelectedFile ==
    \A d \in Dispatches :
        (Sends(d) /\ RequestOf(d).body.kind = "multipart") =>
            \A i \in 1..Len(threads[d].snap.form_data) :
                LET f == threads[d].snap.form_data[i]
                    parts == RequestOf(d).body.parts
                    mine == {j \in 1..Len(parts) : parts[j].field = i}
                IN (f.field_type = "File" /\ f.key # <<>>) =>
                      /\ Cardinality(mine) =
                            Cardinality({j \in 1..Len(f.files) : f.files[j] \in readable})
                      /\ \A j \in mine : parts[j].name = f.key

Multipart(d) == Sends(d) /\ RequestOf(d).body.kind = "multipart"
PartsOf(d) == RequestOf(d).body.parts
FormOf(d) == threads[d].snap.form_data

\* C11: the parts of the outbound form come from the fields with a non-empty
\* key only, each under its field's key, in the order of their fields in
\* form_data, and every Text field with a non-empty key yields exactly one
\* part, a text part holding the field's value as it is.
C11_PartsKeepFieldOrder ==
    \A d \in Dispatches :
        Multipart(d) =>
            /\ \A j \in 1..Len(PartsOf(d)) :
                  /\ PartsOf(d)[j].field \in 1..Len(FormOf(d))
                  /\ FormOf(d)[PartsOf(d)[j].field].key # <<>>
                  /\ PartsOf(d)[j].name = FormOf(d)[PartsOf(d)[j].field].key
            /\ \A j, k \in 1..Len(PartsOf(d)) :
                  j < k => PartsOf(d)[j].field < PartsOf(d)[k].field
            /\ \A i \in 1..Len(FormOf(d)) :
                  (FormOf(d)[i].field_type = "Text" /\ FormOf(d)[i].key # <<>>) =>
                      \E j \in 1..Len(PartsOf(d)) :
                          /\ PartsOf(d)[j].field = i
                          /\ PartsOf(d)[j].kind = "text"
                          /\ PartsOf(d)[j].text = FormOf(d)[i].value
                          /\ \A k \in 1..Len(PartsOf(d)) : PartsOf(d)[k].field = i => k = j

\* a form of two text fields, keys a then b, encoded as parts a then b
C11_Witness ==
    \E d \in Dispatches :
        /\ Multipart(d)
        /\ [i \in 1..Len(FormOf(d)) |-> FormOf(d)[i].key] = << <<"a">>, <<"b">> >>
        /\ \A i \in 1..Len(FormOf(d)) : FormOf(d)[i].field_type = "Text"
        /\ [j \in 1..Len(PartsOf(d)) |-> PartsOf(d)[j].name] = << <<"a">>, <<"b">> >>

\* the files a File field holds that std::fs::read can and cannot read
ReadableFiles(f) == {j \in 1..Len(f.files) : f.files[j] \in readable}
UnreadableFiles(f) == {j \in 1..Len(f.files) : f.files[j] \notin readable}

\* C12: when a file of a keyed File field cannot be read, only the part of
\* that file is left out: every keyed Text field and every readable file of a
\* keyed File field still has its part, the thread does not end before
\* sending its result, and it sends exactly one.
C12_UnreadableFileSkippedAlone ==
    \A d \in Dispatches :
        (/\ Multipart(d)
         /\ \E i \in 1..Len(FormOf(d)) :
               /\ FormOf(d)[i].field_type = "File"
               /\ FormOf(d)[i].key # <<>>
               /\ UnreadableFiles(FormOf(d)[i]) # {}) =>
            /\ \A i \in 1..Len(FormOf(d)) :
                  FormOf(d)[i].key # <<>> =>
                      Cardinality({j \in 1..Len(PartsOf(d)) : PartsOf(d)[j].field = i}) =
                          IF FormOf(d)[i].field_type = "Text" THEN 1
                          ELSE Cardinality(ReadableFiles(FormOf(d)[i]))
            /\ threads[d].pc # "panicked"
            /\ threads[d].pc = "done" => threads[d].sent = 1

\* A header line as the header text spells it.  Once trimmed, a line that is
\* empty or starts with '#' is ignored; any other line is read as the name
\* before its first ':' and the value after it, both trimmed, and is valid
\* when it has a ':', the name is a non-empty token and the value holds no
\* control character.  Names are compared lower-cased.
Trimmed(l) == TrimMatches(l, Whitespace)
LowerCased(n) == [i \in 1..Len(n) |-> ToAsciiLowercase(n[i])]
ReadLine(l) ==
    LET t == Trimmed(l)
        colons == {i \in 1..Len(t) : t[i] = ":"}
        first == CHOOSE i \in colons : \A j \in colons : i <= j
        name == Trimmed(SubSeq(t, 1, first - 1))
        value == Trimmed(SubSeq(t, first + 1, Len(t)))
    IN IF t = <<>> \/ t[1] = "#" \/ colons = {}
       THEN [valid |-> FALSE, name |-> <<>>, value |-> <<>>]
       ELSE [valid |-> /\ name # <<>>
                       /\ Range(name) \subseteq TokenChars
                       /\ Range(value) \cap ControlChars = {},
             name |-> LowerCased(name),
             value |-> value]
\* the lines of a header text, each as ReadLine reads it
ReadLines(text) == LET ls == Lines(text) IN [i \in 1..Len(ls) |-> ReadLine(ls[i])]
\* the valid lines of a name among lines read
LinesNamed(rl, name) == {i \in 1..Len(rl) : rl[i].valid /\ rl[i].name = name}
LastOf(S) == CHOOSE i \in S : \A j \in S : j <= i
\* the header map parse_headers returned to send_request
Parsed(d) == threads[d].snap.headers
NoBearer(d) == ~BearerActive(d)

\* C13: the parsed headers are those of the lines that are not ignored (blank
\* or starting with '#' once trimmed), hold a ':', and have a valid name before
\* their first ':' and a valid value after it: a header is there for every
\* such line and for no other, with the trimmed text after the first ':' of
\* such a line as its value; "# comment\n\nX-Foo: bar" gives the one header
\* X-Foo: bar.
C13_ParsedHeadersAreTheValidLines ==
    \A d \in Dispatches :
        NoBearer(d) =>
            LET rl == ReadLines(threads[d].snap.raw_headers)
            IN /\ {e.name : e \in Parsed(d)} = {rl[i].name : i \in {j \in 1..Len(rl) : rl[j].valid}}
               /\ \A e \in Parsed(d) :
                     \E i \in LinesNamed(rl, e.name) : e.value = rl[i].value
               /\ threads[d].snap.raw_headers = ExampleCommentBlankXFoo =>
                     Parsed(d) = {[name |-> <<"x", "-", "f", "o", "o">>,
                                   value |-> <<"b", "a", "r">>]}

\* the text "# comment\n\nX-Foo: bar" has been parsed for a dispatch
C13_Witness ==
    \E d \in Dispatches :
        /\ threads[d].snap.raw_headers = ExampleCommentBlankXFoo
        /\ Cardinality(Parsed(d)) = 1

\* C14: the parsed headers hold at most one entry per header name, names
\* compared without regard to case, and the value of an entry is the value of
\* the last valid line with that name; "A: 1\nA: 2" gives A: 2 and
\* "A: 1\na: 2" gives one entry, of value 2.
C14_LastOccurrenceWins ==
    \A d \in Dispatches :
        NoBearer(d) =>
            LET rl == ReadLines(threads[d].snap.raw_headers)
            IN /\ \A e1, e2 \in Parsed(d) :
                     LowerCased(e1.name) = LowerCased(e2.name) => e1 = e2
               /\ \A e \in Parsed(d) :
                     /\ LinesNamed(rl, e.name) # {}
                     /\ e.value = rl[LastOf(LinesNamed(rl, e.name))].value
               /\ threads[d].snap.raw_headers \in {PlA1 \o <<"\n">> \o PlA2,
                                                    PlA1 \o <<"\n">> \o PlLowerA2} =>
                     Parsed(d) = {[name |-> <<"a">>, value |-> <<"2">>]}

\* the text "A: 1\na: 2" has been parsed for a dispatch
C14_Witness ==
    \E d \in Dispatches :
        /\ threads[d].snap.raw_headers = PlA1 \o <<"\n">> \o PlLowerA2
        /\ Parsed(d) # {}

\* the dispatch numbers of the entries of one kind in the log, in order
LogIds(ev) ==
    LET sel == SelectSeq(log, LAMBDA x : x.ev = ev)
    IN [i \in 1..Len(sel) |-> sel[i].id]
\* the entries of one kind among the first n of the log
CountBefore(ev, n) == Cardinality({k \in 1..n : log[k].ev = ev})

\* a step of update: a frame that starts no dispatch leaves the threads and
\* the server as they are, one that starts a dispatch adds a thread
IsUpdateStep ==
    \/ threads' = threads /\ server' = server
    \/ Len(threads') > Len(threads)

\* C15 as stated, on one step: update takes exactly one result off the
\* channel when results are queued, the oldest, and leaves the others queued
\* in their order; with nothing queued it leaves the response fields
\* unchanged.
C15_StepAsStated ==
    /\ Len(rx') >= Len(rx) - 1
    /\ (IsUpdateStep /\ rx # <<>>) => rx' = Tail(rx)
    /\ rx = <<>> => UNCHANGED responseVars

\* C15 as stated: every step of every behaviour is as C15_StepAsStated says.
C15_UpdateTakesOneElseLeavesResponse == [][C15_StepAsStated]_vars

\* C15, amended, on one step: update takes exactly one result off the channel
\* when results are queued, the oldest, puts it on display and leaves the
\* others queued in their order; with nothing queued its poll leaves the
\* response fields unchanged; a dispatch started later in the same call of
\* update sets the body to "Loading..." and clears the status.
C15_Step ==
    /\ Len(rx') >= Len(rx) - 1
    /\ (IsUpdateStep /\ rx # <<>>) =>
          /\ rx' = Tail(rx)
          /\ response_headers' = Head(rx).resp.headers
          /\ is_response_binary' = Head(rx).resp.is_binary
          /\ response_filename' = Head(rx).resp.filename
          /\ response_bytes' = Head(rx).resp.bytes
          /\ response_content_type' = Head(rx).resp.content_type
          /\ Len(threads') = Len(threads) =>
                /\ response_body' = Head(rx).resp.body
                /\ response_status' = Head(rx).resp.status
          /\ Len(threads') > Len(threads) =>
                /\ response_body' = S_Loading
                /\ response_status' = <<>>
    /\ rx = <<>> =>
          /\ UNCHANGED <<response_headers, is_response_binary, response_filename,
                         response_bytes, response_content_type>>
          /\ IF Len(threads') = Len(threads)
             THEN UNCHANGED <<response_body, response_status>>
             ELSE response_body' = S_Loading /\ response_status' = <<>>

\* C15, amended: every step of every behaviour is as C15_Step says.
C15_PollTakesOneOldestResult == [][C15_Step]_vars

\* the last thing that happened is a poll that found two results queued and
\* took one: one is still queued
C15_Witness ==
    /\ log # <<>>
    /\ log[Len(log)].ev = "recv"
    /\ CountBefore("send", Len(log) - 1) - CountBefore("recv", Len(log) - 1) >= 2
    /\ Len(rx) >= 1

\* dispatch d2 was started while the earlier dispatch d1 was still running:
\* d1 has not panicked and had sent nothing when d2 was spawned
Overlapped(d1, d2) ==
    /\ d1 < d2
    /\ threads[d1].pc # "panicked"
    /\ \E p \in 1..Len(log) :
          /\ log[p] = [ev |-> "spawn", id |-> d2]
          /\ ~\E q \in 1..(p - 1) : log[q] = [ev |-> "send", id |-> d1]

\* C16: of two dispatches that overlap, each sends exactly one result, its
\* own, by the time its thread has ended, and update receives the results in
\* the order they were sent on the channel.
C16_OverlappingDispatchesBothDeliver ==
    /\ \A d1, d2 \in Dispatches :
          Overlapped(d1, d2) =>
              \A d \in {d1, d2} :
                  /\ Ended(d) => threads[d].sent = 1
                  /\ \A i \in SentOnChannel(d) : rx[i].resp = Result(d)
    /\ Len(LogIds("recv")) <= Len(LogIds("send"))
    /\ LogIds("recv") = SubSeq(LogIds("send"), 1, Len(LogIds("recv")))

\* what a request and a result show of the configuration they were made
\* from: URL, method, body text or parts, the parsed headers, the filename
RequestMadeFrom(req, c) ==
    /\ req.url = c.url
    /\ req.method = c.method
    /\ ~req.error =>
          /\ req.body.kind = "text" => req.body.text = c.body
          /\ req.body.kind = "none" <=> c.method \in {"GET", "DELETE"}
          /\ req.body.kind = "text" => c.content_type = "Json"
          /\ req.body.kind = "multipart" =>
                /\ c.content_type = "FormData"
                /\ {req.body.parts[j].name : j \in 1..Len(req.body.parts)}
                      = {c.form_data[i].key : i \in 1..Len(c.form_data)} \ {<<>>}
          /\ \A e \in c.headers : e \in req.headers
ResultMadeFrom(res, o, c) ==
    (o.kind = "ok" /\ ~IsSome(o.cd)) =>
        res.filename = SubSeq(c.url, RFindChar(c.url, "/") + 1, Len(c.url))

\* C17, on one step: the configuration a dispatch holds is the one of the
\* moment send_request was called, no later step changes it, and the request
\* the thread builds and the result it makes are those of that configuration,
\* whatever the fields of MyApp have become.
C17_Step ==
    /\ \A d \in Dispatches : threads'[d].snap = threads[d].snap
    /\ \A d \in (1..Len(threads')) \ Dispatches :
          /\ threads'[d].snap.url = url
          /\ threads'[d].snap.method = method
          /\ threads'[d].snap.body = body
          /\ threads'[d].snap.raw_headers = headers
          /\ threads'[d].snap.auth_type = auth_type
          /\ threads'[d].snap.bearer_token = bearer_token
          /\ threads'[d].snap.content_type = content_type
          /\ threads'[d].snap.form_data = form_data
    /\ \A d \in Dispatches :
          /\ IsSome(threads'[d].request) =>
                RequestMadeFrom(Unwrap(threads'[d].request), threads[d].snap)
          /\ IsSome(threads'[d].response) =>
                ResultMadeFrom(Unwrap(threads'[d].response), Unwrap(threads'[d].outcome),
                               threads[d].snap)

\* C17: every step of every behaviour is as C17_Step says.
C17_SnapshotIsImmutable == [][C17_Step]_vars

\* a dispatch has delivered the result of the request of its own
\* configuration, while URL and method of MyApp have both been edited since
C17_Witness ==
    \E d \in Dispatches :
        /\ threads[d].pc = "done"
        /\ ~RequestOf(d).error
        /\ url # threads[d].snap.url
        /\ method # threads[d].snap.method
        /\ RequestOf(d).url = threads[d].snap.url
        /\ RequestOf(d).method = threads[d].snap.method

\* the prefixes that make a content type binary, as the claim spells them
BinaryPrefixes ==
    {<<"i", "m", "a", "g", "e", "/">>,
     <<"a", "p", "p", "l", "i", "c", "a", "t", "i", "o", "n", "/", "p", "d", "f">>,
     <<"a", "p", "p", "l", "i", "c", "a", "t", "i", "o", "n", "/", "o", "c", "t", "e", "t", "-",
       "s", "t", "r", "e", "a", "m">>,
     <<"v", "i", "d", "e", "o", "/">>,
     <<"a", "u", "d", "i", "o", "/">>}
HasBinaryPrefix(v) ==
    \E p \in BinaryPrefixes : Len(v) >= Len(p) /\ \A i \in 1..Len(p) : v[i] = p[i]
\* the results made of a response the server gave
ReceivedResults(d) ==
    IF IsSome(threads[d].outcome) /\ Outcome(d).kind = "ok" THEN ResultsOf(d) ELSE {}

\* C18 as stated: is_binary is true iff the content-type header value of the
\* response starts with one of the five prefixes, compared with regard to
\* case; with no content-type header content_type is "" and is_binary false.
C18_BinaryIffHeaderValuePrefix ==
    \A d \in Dispatches : \A r \in ReceivedResults(d) :
        IF IsSome(Outcome(d).ct)
        THEN r.is_binary <=> HasBinaryPrefix(Unwrap(Outcome(d).ct))
        ELSE r.content_type = <<>> /\ ~r.is_binary

\* C18, amended: when the content-type header value is visible ASCII (tab
\* included), content_type is that value and is_binary is true iff it starts
\* with one of the five prefixes, compared with regard to case; with no
\* content-type header, or one whose value holds a byte that is not visible
\* ASCII, content_type is "" and is_binary false.
C18_BinaryIffVisibleValuePrefix ==
    \A d \in Dispatches : \A r \in ReceivedResults(d) :
        IF IsSome(Outcome(d).ct) /\ ObsText \notin Range(Unwrap(Outcome(d).ct))
        THEN /\ r.content_type = Unwrap(Outcome(d).ct)
             /\ r.is_binary <=> HasBinaryPrefix(Unwrap(Outcome(d).ct))
        ELSE r.content_type = <<>> /\ ~r.is_binary

\* the result of a response of content type "Image/png" is on the channel,
\* and is not binary
C18_Witness ==
    \E d \in Dispatches : \E i \in SentOnChannel(d) :
        /\ Outcome(d).kind = "ok"
        /\ Outcome(d).ct = Some(CtImageUpper)
        /\ ~rx[i].resp.is_binary

\* the value of the last valid Authorization line of a header text, None
\* when it has none
LastRawAuthorization(text) ==
    LET rl == ReadLines(text)
        named == LinesNamed(rl, <<"a", "u", "t", "h", "o", "r", "i", "z", "a", "t", "i", "o", "n">>)
    IN IF named = {} THEN None ELSE Some(rl[LastOf(named)].value)

\* C19: when the auth type is None, or Bearer with an empty token, the
\* builder sets no Authorization header: the header map handed to the thread
\* and the outbound request carry the value of the last valid Authorization
\* line of the raw header text, and no Authorization header when there is no
\* such line.
C19_NoAuthorizationWithoutToken ==
    \A d \in Dispatches :
        NoBearer(d) =>
            LET raw == LastRawAuthorization(threads[d].snap.raw_headers)
            IN /\ HeaderGet(Parsed(d), H_AUTHORIZATION) = raw
               /\ Sends(d) =>
                     /\ ~IsSome(HeaderGet(RequestOf(d).set_headers, H_AUTHORIZATION))
                     /\ HeaderGet(RequestOf(d).headers, H_AUTHORIZATION) = raw

\* a request built with auth type Bearer and an empty token over header text
\* with an Authorization line
C19_Witness ==
    \E d \in Dispatches :
        /\ Sends(d)
        /\ threads[d].snap.auth_type = "Bearer"
        /\ threads[d].snap.bearer_token = <<>>
        /\ IsSome(LastRawAuthorization(threads[d].snap.raw_headers))

\* the dispatches whose thread has not ended
InFlight == {d \in Dispatches : ~Ended(d)}

\* C20: send_request is never called while loading is true, whichever way it
\* is triggered, so at most one dispatch is in flight at any time.
C20_AtMostOneDispatchInFlight == Cardinality(InFlight) <= 1

\* the dispatches still outstanding: the thread is running, or its result is
\* queued on the channel and update has not received it yet
Outstanding == {d \in Dispatches : ~Ended(d) \/ SentOnChannel(d) # {}}

\* C21: loading is false only if no dispatch is outstanding; while any
\* dispatch is in flight or its result is still queued, loading is true.
C21_LoadingFalseOnlyWhenNoneOutstanding == ~loading => Outstanding = {}

\* the dispatches whose result update has received and applied
Received == {d \in Dispatches : \E k \in 1..Len(log) : log[k] = [ev |-> "recv", id |-> d]}
\* the seven displayed response fields are as MyApp::default leaves them
ResponseInitial ==
    /\ response_status = <<>>
    /\ response_headers = <<>>
    /\ response_body = <<>>
    /\ ~is_response_binary
    /\ response_filename = <<>>
    /\ response_bytes = <<>>
    /\ response_content_type = <<>>
\* the seven displayed response fields are those of the result r
ResponseShows(r) ==
    /\ response_status = r.status
    /\ response_headers = r.headers
    /\ response_body = r.body
    /\ is_response_binary = r.is_binary
    /\ response_filename = r.filename
    /\ response_bytes = r.bytes
    /\ response_content_type = r.content_type

\* C23: whenever loading is false, the seven displayed response fields are
\* all at their initial values or all those of one result that was delivered
\* and received, never a mix of two results or of a result and the
\* "Loading..." placeholder.
C23_ResponseIsInitialOrOneResult ==
    ~loading => ResponseInitial \/ \E d \in Received : ResponseShows(Result(d))

\* two different results have been received, a binary one first, and with
\* loading false the display shows the second
C23_Witness ==
    /\ ~loading
    /\ LogIds("recv") = <<1, 2>>
    /\ Result(1).is_binary
    /\ Result(1) # Result(2)
    /\ ResponseShows(Result(2))

\* C22: every result placed on the channel is eventually received and
\* applied by update, given only that update runs again whenever a repaint
\* was requested and without further user input.
C22_QueuedResultEventuallyReceived ==
    \A d \in 1..MaxDispatch :
        (d \in Dispatches /\ SentOnChannel(d) # {}) ~> (d \in Received)

====
